---- MODULE Spec2Model ----
(***************************************************************************)
(* Model of the analytics ingestion service of src/app.py: the /auth       *)
(* endpoint that issues signed, timestamped session tokens, and the /send  *)
(* endpoint that verifies a token and writes a batch of stamped records    *)
(* inside one storage transaction.                                         *)
(*                                                                         *)
(* Text is modelled as a sequence of characters, a Python int as its       *)
(* canonical decimal numeral (a sequence of digit values, most significant *)
(* first, no leading zero), bytes as a sequence of values 0..255.  The     *)
(* character "^2" stands for U+00B2 SUPERSCRIPT TWO, a character for which *)
(* str.isdigit() is true and int() raises ValueError.                      *)
(***************************************************************************)
EXTENDS Integers, Sequences, FiniteSets, TLC

VARIABLES
    now,           \* int(time.time()) as itsdangerous reads it
    secretkey,     \* config.main.secretkey of the running process
    mongo_client,  \* the module global set by lifetime()
    collections,   \* names of the collections that exist in the database
    store,         \* documents visible in the "analytics" collection
    auths,         \* log of the /auth requests served, with their responses
    req            \* the /send requests, one per request slot

vars == <<now, secretkey, mongo_client, collections, store, auths, req>>

None == "None"

--------------------------------------------------------------------------
(* Bounds of the model. *)

MaxAuth == 2       \* /auth requests served in one run
MaxBatch == 2      \* records in one /send body
MaxWindows == 1    \* the clock runs over 0..MaxWindows expiry windows

--------------------------------------------------------------------------
(* Program constants. *)

expiry == 3600
MaxSteamIdLen == 25
NonceLen == 32
COLLECTION_NAME == "analytics"
UUID_NAMESPACE == "21401300-2531-8110-8242-494e4352474d"
Keys == {"Incremental Game", "rotated key"}
DefaultKey == "Incremental Game"

--------------------------------------------------------------------------
(* Text and integers. *)

Rep(c, n) == [i \in 1..n |-> c]

DecimalChars == {"0", "1", "2", "3", "4", "5", "6", "7", "8", "9"}
DigitChars == DecimalChars \cup {"^2"}

DigitVal(c) ==
    CASE c = "0" -> 0 [] c = "1" -> 1 [] c = "2" -> 2 [] c = "3" -> 3
      [] c = "4" -> 4 [] c = "5" -> 5 [] c = "6" -> 6 [] c = "7" -> 7
      [] c = "8" -> 8 [] c = "9" -> 9

\* str.isdigit(): at least one character and every character a digit.
isdigit(s) == Len(s) > 0 /\ \A i \in 1..Len(s) : s[i] \in DigitChars

RECURSIVE StripZeros(_)
StripZeros(n) ==
    IF Len(n) > 1 /\ n[1] = 0 THEN StripZeros(Tail(n)) ELSE n

\* int(s) for a string that passed isdigit(): the numeral without leading
\* zeros, or ValueError when a character is no decimal digit.
int(s) ==
    IF Len(s) > 0 /\ \A i \in 1..Len(s) : s[i] \in DecimalChars
    THEN [ok |-> TRUE, value |-> StripZeros([i \in 1..Len(s) |-> DigitVal(s[i])])]
    ELSE [ok |-> FALSE, exc |-> "ValueError"]

\* Long division of the numeral n by a small d: the remainder after the first
\* k digits, and the quotient.
RECURSIVE PrefixRem(_, _, _)
PrefixRem(n, d, k) ==
    IF k = 0 THEN 0 ELSE (PrefixRem(n, d, k - 1) * 10 + n[k]) % d

DivNumeral(n, d) ==
    StripZeros([k \in 1..Len(n) |-> (PrefixRem(n, d, k - 1) * 10 + n[k]) \div d])

ModNumeral(n, d) == PrefixRem(n, d, Len(n))

\* The k low bytes of n, least significant first, and what is left above them.
RECURSIVE LowBytes(_, _)
LowBytes(n, k) ==
    IF k = 0 THEN <<>> ELSE <<ModNumeral(n, 256)>> \o LowBytes(DivNumeral(n, 256), k - 1)

RECURSIVE HighPart(_, _)
HighPart(n, k) == IF k = 0 THEN n ELSE HighPart(DivNumeral(n, 256), k - 1)

\* struct.pack("<Q", n): eight little-endian bytes, struct.error when n does
\* not fit 64 bits.
pack_Q(n) ==
    IF HighPart(n, 8) = <<0>>
    THEN [ok |-> TRUE, bytes |-> LowBytes(n, 8)]
    ELSE [ok |-> FALSE, exc |-> "struct.error"]

--------------------------------------------------------------------------
(* Base64 text of the nonce.  A text is [sym, pad, fill]: sym data          *)
(* characters followed by pad "=" characters, every decoded byte equal to  *)
(* fill.                                                                   *)

\* pydantic.Base64Bytes: the decoded bytes, or a validation error when the
\* text is not base64 (its length with padding is no multiple of 4).
b64decode(t) ==
    IF (t.sym + t.pad) % 4 = 0 /\ t.pad <= 2 /\ (t.pad > 0 => t.sym % 4 = 4 - t.pad)
    THEN [ok |-> TRUE, bytes |-> Rep(t.fill, (t.sym * 6) \div 8)]
    ELSE [ok |-> FALSE]

--------------------------------------------------------------------------
(* Identity derivation and tokens. *)

\* uuid.uuid5(namespace, name): a hash of namespace and name, modelled as the
\* pair itself (no two names collide).
uuid5(namespace, name) == [ns |-> namespace, name |-> name]

uuid_from_steamid_and_value(steamid, random_value) ==
    LET packed == pack_Q(steamid)
    IN  IF packed.ok
        THEN [ok |-> TRUE, value |-> uuid5(UUID_NAMESPACE, packed.bytes \o random_value)]
        ELSE packed

\* str(uuid) and uuid.UUID(text).
str_uuid(u) == [hex |-> u]
parse_uuid(s) == s.hex

\* TokenData.model_dump(mode="json") and TokenData.model_validate.
model_dump(token) == [steam_id |-> token.steam_id, uuid |-> str_uuid(token.uuid)]
model_validate(obj) == [steam_id |-> obj.steam_id, uuid |-> parse_uuid(obj.uuid)]

\* b64pickle.dumps and b64pickle.loads.
b64pickle_dumps(obj) == [b64 |-> [pickle |-> obj]]
b64pickle_loads(data) == data.b64.pickle

\* The HMAC of itsdangerous' TimestampSigner over payload and timestamp.
hmac(key, payload, ts) == [key |-> key, payload |-> payload, ts |-> ts]

\* A serializer without the timestamp (the untimed Serializer): every token
\* carries the same time field.
serializer_dumps_untimed(key, obj, t) ==
    LET payload == b64pickle_dumps(obj)
    IN  [payload |-> payload, ts |-> 0, sig |-> hmac(key, payload, 0)]

\* TimedSerializer.dumps: payload "." timestamp "." signature.
serializer_dumps(key, obj, t) ==
    LET payload == b64pickle_dumps(obj)
    IN  [payload |-> payload, ts |-> t, sig |-> hmac(key, payload, t)]

encapsulate(token, key, t) == serializer_dumps(key, model_dump(token), t)

\* Text that is no token at all (no separator in it).
Garbage == [text |-> "garbage"]

\* loads without the age check (max_age not passed).
serializer_loads_unaged(key, data, max_age, t) ==
    IF "sig" \notin DOMAIN data THEN [ok |-> FALSE, exc |-> "BadSignature"]
    ELSE IF data.sig # hmac(key, data.payload, data.ts)
         THEN [ok |-> FALSE, exc |-> "BadTimeSignature"]
         ELSE [ok |-> TRUE, value |-> b64pickle_loads(data.payload)]

\* loads that already rejects a token whose age has reached max_age.
serializer_loads_strict(key, data, max_age, t) ==
    IF "sig" \notin DOMAIN data THEN [ok |-> FALSE, exc |-> "BadSignature"]
    ELSE IF data.sig # hmac(key, data.payload, data.ts)
         THEN [ok |-> FALSE, exc |-> "BadTimeSignature"]
         ELSE LET age == t - data.ts
              IN  IF age >= max_age \/ age < 0
                  THEN [ok |-> FALSE, exc |-> "SignatureExpired"]
                  ELSE [ok |-> TRUE, value |-> b64pickle_loads(data.payload)]

\* TimedSerializer.loads(data, max_age) under key, at clock t: the signature
\* first, then the age of the timestamp, then the payload.
serializer_loads(key, data, max_age, t) ==
    IF "sig" \notin DOMAIN data THEN [ok |-> FALSE, exc |-> "BadSignature"]
    ELSE IF data.sig # hmac(key, data.payload, data.ts)
         THEN [ok |-> FALSE, exc |-> "BadTimeSignature"]
         ELSE LET age == t - data.ts
              IN  IF age > max_age \/ age < 0
                  THEN [ok |-> FALSE, exc |-> "SignatureExpired"]
                  ELSE [ok |-> TRUE, value |-> b64pickle_loads(data.payload)]

\* TokenData.decapsulate(data) under the configured key, at clock t.
decapsulate(data, key, t) ==
    LET loaded == serializer_loads(key, data, expiry, t)
    IN  IF loaded.ok THEN [ok |-> TRUE, value |-> model_validate(loaded.value)]
        ELSE loaded

--------------------------------------------------------------------------
(* Responses. *)

\* What the framework answers when a handler or a dependency raises and no
\* exception handler is registered (app.py registers none).
ServerError(exc) ==
    [status |-> 500, body |-> [detail |-> "Internal Server Error"], raised |-> exc]

\* What the framework answers when the request does not validate against the
\* declared parameter types.
ValidationError ==
    [status |-> 422, body |-> [detail |-> "Unprocessable Entity"], raised |-> None]

BaseResponse(status, message) ==
    [status |-> status, body |-> [message |-> message], raised |-> None]

AuthResponse(message, token) ==
    [status |-> 201, body |-> [message |-> message, token |-> token], raised |-> None]

--------------------------------------------------------------------------
(* POST /auth *)

\* A parameter check that only asks for enough nonce bytes.
invalid_parameter_atleast(steam_id, random_value) ==
    \/ ~isdigit(steam_id)
    \/ Len(steam_id) > MaxSteamIdLen
    \/ Len(random_value) < NonceLen

\* The parameter check of auth().
invalid_parameter(steam_id, random_value) ==
    \/ ~isdigit(steam_id)
    \/ Len(steam_id) > MaxSteamIdLen
    \/ Len(random_value) # NonceLen

\* An identity that is derived under the signing secret: the key takes the
\* place of the fixed namespace.
auth_keyed(steam_id, random_value, key, t) ==
    IF invalid_parameter(steam_id, random_value)
    THEN BaseResponse(400, "Invalid parameter")
    ELSE LET steamid == int(steam_id)
         IN  IF ~steamid.ok THEN ServerError(steamid.exc)
             ELSE LET packed == pack_Q(steamid.value)
                  IN  IF ~packed.ok THEN ServerError(packed.exc)
                      ELSE AuthResponse("Ok",
                               encapsulate([steam_id |-> steamid.value,
                                            uuid |-> uuid5(key, packed.bytes \o random_value)],
                                           key, t))

\* The handler auth() on a validated AuthRequest, under the key and the clock
\* of the call.
auth(steam_id, random_value, key, t) ==
    IF invalid_parameter(steam_id, random_value)
    THEN BaseResponse(400, "Invalid parameter")
    ELSE LET steamid == int(steam_id)
         IN  IF ~steamid.ok THEN ServerError(steamid.exc)
             ELSE LET id == uuid_from_steamid_and_value(steamid.value, random_value)
                  IN  IF ~id.ok THEN ServerError(id.exc)
                      ELSE AuthResponse("Ok",
                               encapsulate([steam_id |-> steamid.value, uuid |-> id.value],
                                           key, t))

\* One /auth request: AuthRequest validation (the base64 decoding of
\* random_value), then the handler.
Auth(steam_id, random_value) ==
    /\ Len(auths) < MaxAuth
    /\ LET decoded == b64decode(random_value)
           resp == IF decoded.ok THEN auth(steam_id, decoded.bytes, secretkey, now)
                   ELSE ValidationError
       IN  auths' = Append(auths, [steam_id |-> steam_id, random_value |-> random_value,
                                   at |-> now, key |-> secretkey, resp |-> resp])
    /\ UNCHANGED <<now, secretkey, mongo_client, collections, store, req>>

\* The clock moves forward to a later instant.
Instants == {w * expiry + j : w \in 0..MaxWindows, j \in 0..1}

Tick ==
    /\ \E t \in Instants : t > now /\ now' = t
    /\ UNCHANGED <<secretkey, mongo_client, collections, store, auths, req>>

\* The clock moves forward by one whole expiry window.
TickWindow ==
    /\ now + expiry <= MaxWindows * expiry
    /\ now' = now + expiry
    /\ UNCHANGED <<secretkey, mongo_client, collections, store, auths, req>>

--------------------------------------------------------------------------
(* Inputs of /auth. *)

SteamId17 == <<"7", "6", "5", "6", "1", "1", "9">> \o Rep("0", 10)
SteamIdMax ==       \* 2^64 - 1
    <<"1", "8", "4", "4", "6", "7", "4", "4", "0", "7",
      "3", "7", "0", "9", "5", "5", "1", "6", "1", "5">>
SteamIdOver ==      \* 2^64
    <<"1", "8", "4", "4", "6", "7", "4", "4", "0", "7",
      "3", "7", "0", "9", "5", "5", "1", "6", "1", "6">>

SteamIds ==
    { SteamId17, Rep("0", 2) \o SteamId17, SteamIdMax, SteamIdOver,
      Rep("9", MaxSteamIdLen + 1), <<"1", "2", "a">>, <<>>, <<"^2">> }

B64(n, fill) == [sym |-> (n * 8 + 5) \div 6, pad |-> (3 - (n % 3)) % 3, fill |-> fill]

Nonce32 == B64(NonceLen, 0)
Unpadded == [sym |-> 43, pad |-> 0, fill |-> 0]     \* not base64: no padding
Nonces ==
    { Nonce32, B64(NonceLen, 255), B64(NonceLen - 1, 0), B64(NonceLen + 1, 0), Unpadded }

AuthInputs ==
    (SteamIds \X {Nonce32}) \cup ({SteamId17} \X Nonces)

--------------------------------------------------------------------------
(* The storage sink: one collection of visible documents, and per request a *)
(* session whose transaction buffers the writes until it commits.           *)

\* Leaving the transaction block with the writes kept whatever happened (the
\* inserts not bound to the session's transaction).
transaction_exit_keep(visible, buffer, raised, commit_ok) ==
    IF raised # None
    THEN [store |-> visible \o buffer, txn |-> "aborted", raised |-> raised]
    ELSE IF commit_ok
         THEN [store |-> visible \o buffer, txn |-> "committed", raised |-> None]
         ELSE [store |-> visible \o buffer, txn |-> "aborted", raised |-> "OperationFailure"]

\* Leaving the transaction block with the exception suppressed.
transaction_exit_swallow(visible, buffer, raised, commit_ok) ==
    IF raised # None \/ ~commit_ok
    THEN [store |-> visible, txn |-> "aborted", raised |-> None]
    ELSE [store |-> visible \o buffer, txn |-> "committed", raised |-> None]

\* Leaving the transaction block where only an Exception aborts: a
\* cancellation, which is none, falls through to the commit.
transaction_exit_exception_only(visible, buffer, raised, commit_ok) ==
    IF raised = "CancelledError"
    THEN [store |-> visible \o buffer, txn |-> "committed", raised |-> raised]
    ELSE IF raised # None
    THEN [store |-> visible, txn |-> "aborted", raised |-> raised]
    ELSE IF commit_ok
         THEN [store |-> visible \o buffer, txn |-> "committed", raised |-> None]
         ELSE [store |-> visible, txn |-> "aborted", raised |-> "OperationFailure"]

\* Leaving the transaction block where an abort rolls the whole collection
\* back, not only the writes of this session.
transaction_exit_wipe(visible, buffer, raised, commit_ok) ==
    IF raised # None
    THEN [store |-> <<>>, txn |-> "aborted", raised |-> raised]
    ELSE IF commit_ok
         THEN [store |-> visible \o buffer, txn |-> "committed", raised |-> None]
         ELSE [store |-> <<>>, txn |-> "aborted", raised |-> "OperationFailure"]

\* Leaving "async with begin_transaction()": when the block raised, the
\* transaction is aborted and the exception goes on; otherwise the transaction
\* commits, and a failed commit raises.
transaction_exit(visible, buffer, raised, commit_ok) ==
    IF raised # None
    THEN [store |-> visible, txn |-> "aborted", raised |-> raised]
    ELSE IF commit_ok
         THEN [store |-> visible \o buffer, txn |-> "committed", raised |-> None]
         ELSE [store |-> visible, txn |-> "aborted", raised |-> "OperationFailure"]

--------------------------------------------------------------------------
(* POST /send *)

SendEventType == {"start", "upgrade", "update", "end"}

Absent == [absent |-> TRUE]
NoToken == [absent |-> TRUE]
NoResponse == [status |-> 0, body |-> [detail |-> "pending"], raised |-> None]

\* The request slots: two /send requests, which may overlap.
Reqs == {1, 2}

NoRequest ==
    [pc |-> "idle", hdr |-> Absent, body |-> <<>>, at |-> 0, key |-> None,
     token |-> NoToken, tokerr |-> FALSE,
     seen |-> FALSE, data |-> <<>>, i |-> 0, buffer |-> <<>>, txn |-> "none",
     resp |-> NoResponse]

InFlight(p) == req[p].pc \notin {"idle", "done"}

\* get_token_data: the X-Session-Token header, decapsulated.
get_token_data(encoded, key, t) == decapsulate(encoded, key, t)

\* list[SendData] validation of the body: every item an event record; keys
\* that SendData does not declare are dropped.
validate_body(body) ==
    IF \A k \in 1..Len(body) : body[k].event \in SendEventType
    THEN [ok |-> TRUE,
          value |-> [k \in 1..Len(body) |->
                        [event |-> body[k].event, playtime |-> body[k].playtime]]]
    ELSE [ok |-> FALSE]

\* A record stamped with the raw platform id instead of the derived identity.
stamp_steam_id(send_data, token) ==
    [f \in DOMAIN send_data \cup {"player_id"} |->
        IF f = "player_id" THEN str_uuid([ns |-> "steam_id", name |-> token.steam_id])
        ELSE send_data[f]]

\* send_data_with_id["player_id"] = str(token.uuid)
stamp(send_data, token) ==
    [f \in DOMAIN send_data \cup {"player_id"} |->
        IF f = "player_id" THEN str_uuid(token.uuid) ELSE send_data[f]]

\* The document insert_one writes: the record and the _id the driver gives it
\* (here the request slot and the position in the batch).
Document(p, k, rec) ==
    [f \in DOMAIN rec \cup {"_id"} |-> IF f = "_id" THEN <<p, k>> ELSE rec[f]]

\* An insert that puts the document in front of what the session wrote so far.
insert_one_front(buffer, doc) == <<doc>> \o buffer

\* await db.insert_one(send_data_with_id, session=sess): the document is
\* written in the session's transaction, after the writes already there.
insert_one(buffer, doc) == Append(buffer, doc)

\* The request was cancelled: no response goes out.
Cancelled ==
    [status |-> 0, body |-> [detail |-> "cancelled"], raised |-> "CancelledError"]

Finished(r, resp) ==
    [r EXCEPT !.pc = "done", !.resp = resp, !.buffer = <<>>, !.seen = FALSE]

\* A /send request arrives; the first dependency, get_token_data, runs.  A
\* missing header is a validation error that is reported after the other
\* dependencies ran; a token that does not verify raises.
SendArrive(p, hdr, body) ==
    /\ req[p].pc = "idle"
    /\ LET r == [req[p] EXCEPT !.hdr = hdr, !.body = body, !.at = now, !.key = secretkey]
           verified == get_token_data(hdr, secretkey, now)
       IN  req' = [req EXCEPT ![p] =
                IF hdr = Absent THEN [r EXCEPT !.pc = "dep_db", !.tokerr = TRUE]
                ELSE IF verified.ok
                     THEN [r EXCEPT !.pc = "dep_db", !.token = verified.value]
                     ELSE Finished(r, ServerError(verified.exc))]
    /\ UNCHANGED <<now, secretkey, mongo_client, collections, store, auths>>

\* mongodb_dependency up to the answer of list_collection_names().
DepListCollections(p) ==
    /\ req[p].pc = "dep_db"
    /\ req' = [req EXCEPT ![p] =
           IF mongo_client = None THEN Finished(@, ServerError("RuntimeError"))
           ELSE [@ EXCEPT !.pc = "dep_listed", !.seen = COLLECTION_NAME \in collections]]
    /\ UNCHANGED <<now, secretkey, mongo_client, collections, store, auths>>

\* mongodb_dependency from there: create_collection when the name was not
\* listed (it raises when the collection exists by now, or the client is
\* closed), get_collection otherwise.  Then the request is validated: a
\* missing header or a body that is no list[SendData] is answered 422.
DepGetCollection(p) ==
    /\ req[p].pc = "dep_listed"
    /\ LET r == req[p]
           create == ~r.seen
           body == validate_body(r.body)
       IN  IF create /\ mongo_client = None
           THEN /\ req' = [req EXCEPT ![p] = Finished(r, ServerError("InvalidOperation"))]
                /\ UNCHANGED collections
           ELSE IF create /\ COLLECTION_NAME \in collections
           THEN /\ req' = [req EXCEPT ![p] = Finished(r, ServerError("CollectionInvalid"))]
                /\ UNCHANGED collections
           ELSE /\ collections' = collections \cup {COLLECTION_NAME}
                /\ req' = [req EXCEPT ![p] =
                       IF r.tokerr \/ ~body.ok THEN Finished(r, ValidationError)
                       ELSE [r EXCEPT !.pc = "handler", !.data = body.value, !.seen = FALSE]]
    /\ UNCHANGED <<now, secretkey, mongo_client, store, auths>>

\* send() enters "async with begin_transaction()".
BeginTransaction(p) ==
    /\ req[p].pc = "handler"
    /\ req' = [req EXCEPT ![p] =
           IF mongo_client = None THEN Finished(@, ServerError("RuntimeError"))
           ELSE [@ EXCEPT !.pc = "loop", !.txn = "active", !.i = 1]]
    /\ UNCHANGED <<now, secretkey, mongo_client, collections, store, auths>>

\* One turn of the loop: the next record is stamped and inserted in the
\* session.  A failed insert raises out of the block.
InsertOne(p, ok) ==
    /\ req[p].pc = "loop"
    /\ req[p].i <= Len(req[p].data)
    /\ ok => mongo_client # None
    /\ LET r == req[p]
           doc == Document(p, r.i, stamp(r.data[r.i], r.token))
           out == transaction_exit(store, r.buffer, "OperationFailure", FALSE)
       IN  IF ok
           THEN /\ req' = [req EXCEPT ![p] = [r EXCEPT !.buffer = insert_one(@, doc), !.i = @ + 1]]
                /\ UNCHANGED store
           ELSE /\ store' = out.store
                /\ req' = [req EXCEPT ![p] =
                       Finished([r EXCEPT !.txn = out.txn],
                                IF out.raised # None THEN ServerError(out.raised)
                                ELSE BaseResponse(200, "Ok"))]
    /\ UNCHANGED <<now, secretkey, mongo_client, collections, auths>>

\* The loop is over: the block is left, the transaction commits, send()
\* returns.
LeaveTransaction(p, ok) ==
    /\ req[p].pc = "loop"
    /\ req[p].i > Len(req[p].data)
    /\ ok => mongo_client # None
    /\ LET r == req[p]
           out == transaction_exit(store, r.buffer, None, ok)
       IN  /\ store' = out.store
           /\ req' = [req EXCEPT ![p] =
                  Finished([r EXCEPT !.txn = out.txn],
                           IF out.raised # None THEN ServerError(out.raised)
                           ELSE BaseResponse(200, "Ok"))]
    /\ UNCHANGED <<now, secretkey, mongo_client, collections, auths>>

\* The task of the request is cancelled while it awaits the insert of record
\* i, which the server has applied in the transaction by then or has not:
\* CancelledError is raised inside the block and leaves it.
Cancel(p, applied) ==
    /\ req[p].pc = "loop"
    /\ req[p].i <= Len(req[p].data)
    /\ LET r == req[p]
           doc == Document(p, r.i, stamp(r.data[r.i], r.token))
           buffer == IF applied THEN insert_one(r.buffer, doc) ELSE r.buffer
           out == transaction_exit(store, buffer, "CancelledError", FALSE)
       IN  /\ store' = out.store
           /\ req' = [req EXCEPT ![p] = Finished([r EXCEPT !.txn = out.txn], Cancelled)]
    /\ UNCHANGED <<now, secretkey, mongo_client, collections, auths>>

--------------------------------------------------------------------------
(* Process lifetime. *)

\* lifetime(): the client is opened before the application serves.
Startup ==
    /\ mongo_client = None
    /\ \A p \in DOMAIN req : ~InFlight(p)
    /\ mongo_client' = "client"
    /\ UNCHANGED <<now, secretkey, collections, store, auths, req>>

\* lifetime(): the client is closed and the global reset.
Shutdown ==
    /\ mongo_client # None
    /\ mongo_client' = None
    /\ UNCHANGED <<now, secretkey, collections, store, auths, req>>

\* The process is started again with another secretkey in its configuration.
Reconfigure(key) ==
    /\ mongo_client = None
    /\ \A p \in DOMAIN req : ~InFlight(p)
    /\ key # secretkey
    /\ secretkey' = key
    /\ UNCHANGED <<now, mongo_client, collections, store, auths, req>>

--------------------------------------------------------------------------
(* Inputs of /send. *)

IssuedTokens ==
    {auths[i].resp.body.token : i \in {j \in 1..Len(auths) : auths[j].resp.status = 201}}

\* An issued token whose payload was replaced, the signature kept.
Tampered(token) ==
    [token EXCEPT !.payload =
        b64pickle_dumps(model_dump([steam_id |-> <<0>>, uuid |-> uuid5(UUID_NAMESPACE, <<>>)]))]

\* What a client may put in X-Session-Token: nothing, a token it was issued,
\* or, from a hostile client, text that is no token or a tampered token.
Headers == {Absent} \cup IssuedTokens
HostileHeaders == {Garbage} \cup {Tampered(t) : t \in IssuedTokens}

\* Item k of a body: "plain" items are event records, "spoofed" items carry a
\* player_id of their own, and the last item of a "bogus" body has an event
\* outside SendEventType.
Item(k, n, variant) ==
    LET event == IF variant = "bogus" /\ k = n THEN "bogus"
                 ELSE IF k = 1 THEN "start" ELSE "update"
    IN  IF variant = "spoofed"
        THEN [event |-> event, playtime |-> k,
              player_id |-> str_uuid(uuid5(UUID_NAMESPACE, <<>>))]
        ELSE [event |-> event, playtime |-> k]

\* The bodies sent: of every length up to MaxBatch, the even items carrying a
\* player_id of their own; and one body that does not validate.
Body(n) == [k \in 1..n |-> Item(k, n, IF k % 2 = 0 THEN "spoofed" ELSE "plain")]
BogusBody == [k \in 1..1 |-> Item(k, 1, "bogus")]
Bodies == {Body(n) : n \in 0..MaxBatch} \cup {BogusBody}

--------------------------------------------------------------------------
(* Specifications. *)

Init ==
    /\ now = 0
    /\ secretkey = DefaultKey
    /\ mongo_client = None
    /\ collections = {}
    /\ store = <<>>
    /\ auths = <<>>
    /\ req = [p \in Reqs |-> NoRequest]

\* The token service alone, over the whole range of /auth inputs.
NextAuth ==
    \/ \E inp \in AuthInputs : Auth(inp[1], inp[2])
    \/ Tick

SpecAuth == Init /\ [][NextAuth]_vars

\* The ingestion pipeline: tokens are issued, and two /send requests run
\* against the storage sink while the process starts and stops.
Next ==
    \/ Auth(SteamId17, Nonce32)
    \/ Startup
    \/ Shutdown
    \/ \E p \in Reqs :
        \/ \E hdr \in Headers, body \in Bodies : SendArrive(p, hdr, body)
        \/ DepListCollections(p)
        \/ DepGetCollection(p)
        \/ BeginTransaction(p)
        \/ \E ok \in BOOLEAN : InsertOne(p, ok)
        \/ \E ok \in BOOLEAN : LeaveTransaction(p, ok)

Spec == Init /\ [][Next]_vars

\* Token verification: tokens are issued, time passes, the process is started
\* again under another key, and /send requests present what clients hold or
\* forge.  One request is followed; the storage client is never opened here,
\* so a request whose token verifies ends in mongodb_dependency.
NextToken ==
    \/ Auth(SteamId17, Nonce32)
    \/ Tick
    \/ \E key \in Keys : Reconfigure(key)
    \/ \E hdr \in Headers \cup HostileHeaders : SendArrive(1, hdr, Body(0))
    \/ DepListCollections(1)

SpecToken == Init /\ [][NextToken]_vars

\* A session: the key stays the same, tokens are issued, time passes, and two
\* /send requests of one record each present issued tokens, the same one
\* twice too, and commit or fail.
NextSession ==
    \/ Auth(SteamId17, Nonce32)
    \/ TickWindow
    \/ Startup
    \/ \E p \in Reqs :
        \/ \E hdr \in IssuedTokens : SendArrive(p, hdr, Body(1))
        \/ DepListCollections(p)
        \/ DepGetCollection(p)
        \/ BeginTransaction(p)
        \/ \E ok \in BOOLEAN : InsertOne(p, ok)
        \/ \E ok \in BOOLEAN : LeaveTransaction(p, ok)

SpecSession == Init /\ [][NextSession]_vars

\* Concurrent batches: a first player and then others are issued tokens, and
\* two /send requests of one or more records each overlap; each one commits,
\* fails at an insert or at its commit, or is cancelled while an insert is
\* awaited.
NextConc ==
    \/ auths = <<>> /\ Auth(SteamId17, Nonce32)
    \/ auths # <<>> /\ Auth(SteamIdMax, Nonce32)
    \/ Startup
    \/ \E p \in Reqs :
        \/ \E hdr \in IssuedTokens, n \in 1..MaxBatch : SendArrive(p, hdr, Body(n))
        \/ DepListCollections(p)
        \/ DepGetCollection(p)
        \/ BeginTransaction(p)
        \/ \E ok \in BOOLEAN : InsertOne(p, ok)
        \/ \E ok \in BOOLEAN : LeaveTransaction(p, ok)
        \/ \E applied \in BOOLEAN : Cancel(p, applied)

SpecConc == Init /\ [][NextConc]_vars

--------------------------------------------------------------------------
(* Claims about /auth, checked under SpecAuth. *)

Issued(e) == e.resp.status = 201 /\ "token" \in DOMAIN e.resp.body
DecodedNonce(e) == b64decode(e.random_value)
InvalidParameterResponse == BaseResponse(400, "Invalid parameter")

\* Two served requests name the same (platform_id, nonce) pair.
SamePair(e, f) ==
    /\ int(e.steam_id).ok /\ int(f.steam_id).ok
    /\ int(e.steam_id).value = int(f.steam_id).value
    /\ DecodedNonce(e).ok /\ DecodedNonce(f).ok
    /\ DecodedNonce(e).bytes = DecodedNonce(f).bytes

\* What verifying an issued token gives, under the key and at the instant of
\* its issue.
VerifiedAtIssue(e) == decapsulate(e.resp.body.token, e.key, e.at)

TwiceIssued(i, j) ==
    /\ i < j
    /\ Issued(auths[i]) /\ Issued(auths[j])
    /\ SamePair(auths[i], auths[j])

\* C5 as stated: two tokens issued for the same (platform_id, nonce) pair have
\* different opaque bytes and verify to the same identity.
C5_TwiceIssuedDiffer ==
    \A i, j \in 1..Len(auths) :
        TwiceIssued(i, j) =>
            /\ auths[i].resp.body.token # auths[j].resp.body.token
            /\ VerifiedAtIssue(auths[i]).ok /\ VerifiedAtIssue(auths[j]).ok
            /\ VerifiedAtIssue(auths[i]).value.uuid = VerifiedAtIssue(auths[j]).value.uuid

\* C5 amended: two tokens issued for the same (platform_id, nonce) pair verify
\* to the same identity, and their opaque bytes differ exactly when they were
\* issued in different clock seconds.
C5_TwiceIssuedSameIdentity ==
    \A i, j \in 1..Len(auths) :
        TwiceIssued(i, j) =>
            /\ (auths[i].resp.body.token # auths[j].resp.body.token)
                   <=> (auths[i].at # auths[j].at)
            /\ VerifiedAtIssue(auths[i]).ok /\ VerifiedAtIssue(auths[j]).ok
            /\ VerifiedAtIssue(auths[i]).value.uuid = VerifiedAtIssue(auths[j]).value.uuid

\* The pair was issued twice in different seconds, under two spellings of the
\* same platform id.
C5_Witness ==
    \E i, j \in 1..Len(auths) :
        /\ TwiceIssued(i, j)
        /\ auths[i].at # auths[j].at
        /\ auths[i].steam_id # auths[j].steam_id

\* C6: /auth never raises; a request that is not answered with a token is
\* answered with the "Invalid parameter" response.
C6_AuthNeverRaises ==
    \A i \in 1..Len(auths) :
        /\ auths[i].resp.raised = None
        /\ Issued(auths[i]) \/ auths[i].resp = InvalidParameterResponse

\* C7: a platform_id text with a character that is no decimal digit, or longer
\* than 25 characters, gets the validation-failure response and no token.
BadSteamIdText(s) ==
    \/ \E k \in 1..Len(s) : s[k] \notin DecimalChars
    \/ Len(s) > MaxSteamIdLen

C7_BadSteamIdRejected ==
    \A i \in 1..Len(auths) :
        BadSteamIdText(auths[i].steam_id) =>
            /\ auths[i].resp.raised = None
            /\ auths[i].resp.status \in {400, 422}
            /\ ~Issued(auths[i])

\* C8: a nonce that decodes to a length other than 32 bytes gets the
\* "Invalid parameter" response and no token; a token is issued only for a
\* nonce of exactly 32 bytes.
C8_NonceLength ==
    \A i \in 1..Len(auths) :
        LET e == auths[i]
        IN  /\ (DecodedNonce(e).ok /\ Len(DecodedNonce(e).bytes) # NonceLen)
                   => e.resp = InvalidParameterResponse
            /\ Issued(e) => DecodedNonce(e).ok /\ Len(DecodedNonce(e).bytes) = NonceLen

\* A well-formed platform id with a 33-byte nonce was rejected, and one with a
\* 32-byte nonce was issued a token.
C8_Witness ==
    /\ \E i \in 1..Len(auths) :
           /\ ~BadSteamIdText(auths[i].steam_id)
           /\ DecodedNonce(auths[i]).ok
           /\ Len(DecodedNonce(auths[i]).bytes) = NonceLen + 1
           /\ auths[i].resp = InvalidParameterResponse
    /\ \E i \in 1..Len(auths) : Issued(auths[i])

\* C9: every successful /auth response is {message: "Ok", token, expire} with
\* expire the configured expiry.
C9_ResponseHasExpire ==
    \A i \in 1..Len(auths) :
        Issued(auths[i]) =>
            /\ auths[i].resp.body.message = "Ok"
            /\ "expire" \in DOMAIN auths[i].resp.body
            /\ auths[i].resp.body.expire = expiry

--------------------------------------------------------------------------
(* Claims about token verification, checked under SpecToken. *)

Presented(r) == r.pc # "idle" /\ r.hdr # Absent
Accepted(r) == Presented(r) /\ r.token # NoToken
Rejected(r) == Presented(r) /\ r.token = NoToken

\* The header is a token whose signature is the one the key of the check gives.
SignedBy(key, hdr) ==
    /\ "sig" \in DOMAIN hdr
    /\ hdr.sig = hmac(key, hdr.payload, hdr.ts)

Age(r) == r.at - r.hdr.ts

\* C3 as stated: a token is accepted only if it is signed with the current key
\* and its age is below the expiry window; a token older than the window or
\* signed with another key is rejected.
C3_AcceptedBelowExpiry ==
    \A p \in Reqs :
        LET r == req[p]
        IN  /\ Accepted(r) => SignedBy(r.key, r.hdr) /\ Age(r) < expiry
            /\ (Presented(r) /\ ~SignedBy(r.key, r.hdr)) => Rejected(r)
            /\ (Presented(r) /\ SignedBy(r.key, r.hdr) /\ Age(r) > expiry) => Rejected(r)

\* C3 amended: a token is accepted only if it is signed with the current key
\* and its age in whole seconds is at most the expiry window; a token older
\* than the window or signed with another key is rejected.
C3_AcceptedWithinExpiry ==
    \A p \in Reqs :
        LET r == req[p]
        IN  /\ Accepted(r) => SignedBy(r.key, r.hdr) /\ Age(r) <= expiry
            /\ (Presented(r) /\ ~SignedBy(r.key, r.hdr)) => Rejected(r)
            /\ (Presented(r) /\ SignedBy(r.key, r.hdr) /\ Age(r) > expiry) => Rejected(r)

\* A token signed with the current key was accepted at the very end of its
\* window.
C3_Witness ==
    \E p \in Reqs :
        /\ Accepted(req[p])
        /\ SignedBy(req[p].key, req[p].hdr)
        /\ Age(req[p]) = expiry

\* C4: a request whose token fails verification, whatever the check that
\* failed, is answered the same unauthorized response.
C4_RejectedIsUnauthorized ==
    \A p \in Reqs :
        Rejected(req[p]) =>
            /\ req[p].resp.status \in {401, 403}
            /\ req[p].resp.raised = None
            /\ \A q \in Reqs : Rejected(req[q]) => req[q].resp.body = req[p].resp.body

--------------------------------------------------------------------------
(* Claims about the ingestion pipeline, checked under Spec. *)

\* The documents of request p that are visible in the collection.
VisibleOf(p) == SelectSeq(store, LAMBDA doc : doc["_id"][1] = p)

Ok200 == BaseResponse(200, "Ok")

\* C1: of a batch of N >= 1 records, either none or all N are visible; they
\* are visible only when all N inserts succeeded and the transaction
\* committed, and none is once an insert has failed.
C1_BatchAtomic ==
    \A p \in Reqs :
        LET r == req[p]
            n == Len(r.data)
        IN  /\ Len(VisibleOf(p)) \in {0, n}
            /\ Len(VisibleOf(p)) > 0 => r.txn = "committed" /\ r.i = n + 1
            /\ (r.pc = "done" /\ r.txn # "committed") => Len(VisibleOf(p)) = 0

\* The second of two inserts failed and the request ended.
C1_Witness ==
    \E p \in Reqs :
        /\ req[p].pc = "done"
        /\ Len(req[p].data) = 2 /\ req[p].i = 2
        /\ req[p].txn = "aborted"
        /\ VisibleOf(p) = <<>>

\* C2: /send answers Ok only after its transaction committed; when an insert
\* or the commit failed, the transaction is aborted and the request fails.
C2_OkOnlyAfterCommit ==
    \A p \in Reqs :
        LET r == req[p]
        IN  /\ r.resp = Ok200 =>
                /\ r.txn = "committed"
                /\ Len(VisibleOf(p)) = Len(r.data)
            /\ (r.pc = "done" /\ r.txn \in {"active", "aborted"}) =>
                /\ r.txn = "aborted"
                /\ r.resp.status = 500 /\ r.resp.raised # None
                /\ VisibleOf(p) = <<>>

\* One request was answered Ok for a committed batch while the other failed at
\* its commit.
C2_Witness ==
    \E p, q \in Reqs :
        /\ req[p].resp = Ok200 /\ Len(req[p].data) >= 1
        /\ req[q].pc = "done" /\ req[q].txn = "aborted"
        /\ req[q].i = Len(req[q].data) + 1

\* The identity of the token a request presented, as issued: the identity
\* /auth derived for the token's (platform_id, nonce) pair.
IssuedIdentity(hdr) ==
    {uuid_from_steamid_and_value(int(auths[i].steam_id).value,
                                 DecodedNonce(auths[i]).bytes).value :
        i \in {j \in 1..Len(auths) : Issued(auths[j]) /\ auths[j].resp.body.token = hdr}}

\* C10: every visible record carries as player_id the string form of the
\* identity in the token that came with its batch, whatever the body says.
C10_PlayerIdFromToken ==
    \A k \in 1..Len(store) :
        LET doc == store[k]
            r == req[doc["_id"][1]]
        IN  /\ IssuedIdentity(r.hdr) # {}
            /\ \A id \in IssuedIdentity(r.hdr) : doc.player_id = str_uuid(id)
            /\ doc.player_id = b64pickle_loads(r.hdr.payload).uuid

\* A visible record whose body item carried a player_id of its own.
C10_Witness ==
    \E k \in 1..Len(store) :
        LET doc == store[k]
            item == req[doc["_id"][1]].body[doc["_id"][2]]
        IN  /\ "player_id" \in DOMAIN item
            /\ item.player_id # doc.player_id

--------------------------------------------------------------------------
(* Claims about a session, checked under SpecSession. *)

\* C11: with the secret key unchanged, an issued token is accepted at every
\* check that falls within the expiry window of its issue, whatever was
\* issued, sent, committed or aborted before; nothing but expiry invalidates
\* it.
C11_ValidUntilExpiry ==
    \A p \in Reqs :
        LET r == req[p]
        IN  (/\ Presented(r)
             /\ r.hdr \in IssuedTokens
             /\ r.key = r.hdr.sig.key
             /\ Age(r) >= 0 /\ Age(r) <= expiry) => Accepted(r)

\* A token that came with a batch that was aborted was presented again later,
\* at the very end of its window, after another token had been issued, and
\* was accepted.
C11_Witness ==
    \E p, q \in Reqs :
        /\ p # q
        /\ req[p].hdr = req[q].hdr
        /\ req[p].pc = "done" /\ req[p].txn = "aborted"
        /\ req[q].at > req[p].at
        /\ Accepted(req[q]) /\ Age(req[q]) = expiry
        /\ Len(auths) > 1

--------------------------------------------------------------------------
(* Claims about the pipeline and the process lifetime, checked under Spec. *)

\* The exceptions of a storage sink that is closed or fails.
SinkDown == {"RuntimeError", "InvalidOperation", "OperationFailure"}

\* C12: an empty batch that came with a valid token writes no record and,
\* unless the storage sink is down, is answered Ok.
C12_EmptyBatchOk ==
    \A p \in Reqs :
        LET r == req[p]
        IN  (Accepted(r) /\ r.body = <<>> /\ r.pc = "done") =>
                /\ VisibleOf(p) = <<>>
                /\ r.resp = Ok200 \/ r.resp.raised \in SinkDown

\* C13: while mongo_client is None no request is answered with a success
\* status (neither /auth nor /send) and no record becomes visible.
C13_NoTrafficWhileUnavailable ==
    [][mongo_client = None =>
          /\ store' = store
          /\ \A p \in Reqs : req'[p].resp.status = 200 => req[p].resp.status = 200
          /\ Len(auths') > Len(auths) => auths'[Len(auths')].resp.status >= 400]_vars

--------------------------------------------------------------------------
(* Claims about key rotation, checked under SpecToken. *)

\* The player_id a batch sent with this issued token is stored under.
StoredPlayerId(e) ==
    stamp([event |-> "start", playtime |-> 0], VerifiedAtIssue(e).value).player_id

\* C14: two tokens issued for the same (platform_id, nonce) pair under two
\* different secret keys carry the same identity, so the player_id stored for
\* the pair is the same before and after the key changed.
C14_IdentityKeyIndependent ==
    \A i, j \in 1..Len(auths) :
        (TwiceIssued(i, j) /\ auths[i].key # auths[j].key) =>
            /\ VerifiedAtIssue(auths[i]).ok /\ VerifiedAtIssue(auths[j]).ok
            /\ VerifiedAtIssue(auths[i]).value.uuid = VerifiedAtIssue(auths[j]).value.uuid
            /\ StoredPlayerId(auths[i]) = StoredPlayerId(auths[j])

\* The same pair was issued a token under the default key and, after the
\* process came back with another key, a second token.
C14_Witness ==
    \E i, j \in 1..Len(auths) :
        /\ TwiceIssued(i, j)
        /\ auths[i].key = DefaultKey /\ auths[j].key # DefaultKey
        /\ secretkey = auths[j].key

--------------------------------------------------------------------------
(* Claims about concurrent requests. *)

\* C15: no /send request fails in the collection bootstrap because another
\* request created the collection between its check and its create.
C15_BootstrapIdempotent ==
    \A p \in Reqs : req[p].resp.raised # "CollectionInvalid"

\* C16: a /send request cancelled after its transaction began and before its
\* commit has its transaction aborted, and none of its records is visible,
\* then or later, at whichever insert the cancellation came.
C16_CancelledBatchAborted ==
    \A p \in Reqs :
        req[p].resp = Cancelled =>
            /\ req[p].txn = "aborted"
            /\ VisibleOf(p) = <<>>

\* A batch of two was cancelled at its second insert, the first one done,
\* while the other request's batch is visible.
C16_Witness ==
    \E p, q \in Reqs :
        /\ req[p].resp = Cancelled
        /\ Len(req[p].data) = 2 /\ req[p].i = 2
        /\ req[q].txn = "committed" /\ VisibleOf(q) # <<>>

\* C17: a /send request whose token is missing or does not verify reaches no
\* sink operation: it never gets as far as the collection bootstrap, a
\* transaction or an insert.
C17_VerificationPrecedesSink ==
    \A p \in Reqs :
        (req[p].pc # "idle" /\ req[p].token = NoToken) =>
            /\ req[p].pc \notin {"dep_listed", "handler", "loop"}
            /\ req[p].txn = "none"

\* The documents of a request's batch, stamped with the identity of the token
\* that came with it, in the order of the request.
OwnDocuments(p) ==
    [k \in 1..Len(req[p].data) |-> Document(p, k, stamp(req[p].data[k], req[p].token))]

\* C18: whatever the other request does, a committed batch is visible whole,
\* every record under the identity of its own token, and a batch that is not
\* committed has no record visible.
C18_BatchesIndependent ==
    \A p \in Reqs :
        /\ req[p].txn = "committed" =>
              /\ VisibleOf(p) = OwnDocuments(p)
              /\ \A k \in 1..Len(VisibleOf(p)) :
                    \A id \in IssuedIdentity(req[p].hdr) :
                        VisibleOf(p)[k].player_id = str_uuid(id)
        /\ req[p].txn # "committed" => VisibleOf(p) = <<>>

\* The batches of two players overlapped: one is committed and visible whole,
\* the other one was aborted after its first insert.
C18_Witness ==
    \E p, q \in Reqs :
        /\ req[p].txn = "committed" /\ Len(VisibleOf(p)) = 2
        /\ req[q].pc = "done" /\ req[q].txn = "aborted" /\ req[q].i = 2
        /\ req[p].token.uuid # req[q].token.uuid
        /\ Len(store) = 2

\* C19: the inserts of a batch are made one after the other in the order of
\* the request: before the insert of record i the session holds records
\* 1..i-1 in that order, and the committed records are in request order.
C19_InsertsInInputOrder ==
    \A p \in Reqs :
        LET r == req[p]
            InOrder(docs) ==
                \A k \in 1..Len(docs) :
                    /\ docs[k]["_id"] = <<p, k>>
                    /\ docs[k].event = r.body[k].event
                    /\ docs[k].playtime = r.body[k].playtime
        IN  /\ r.pc = "loop" => Len(r.buffer) = r.i - 1 /\ InOrder(r.buffer)
            /\ r.txn = "committed" =>
                  Len(VisibleOf(p)) = Len(r.body) /\ InOrder(VisibleOf(p))

\* A batch of two records is committed.
C19_Witness ==
    \E p \in Reqs :
        /\ req[p].txn = "committed"
        /\ Len(req[p].body) = 2
        /\ VisibleOf(p)[1].event = "start" /\ VisibleOf(p)[2].event = "update"

====
